---- MODULE Spec2Model ----
(***************************************************************************)
(* Sale settlement, rolling stock ledger and customer credit ledger of the *)
(* POS server (sales/schema/mutations/sale_mutations.py, sales/models.py,  *)
(* products/models.py, customers/models.py).                               *)
(*                                                                         *)
(* The database tables are the variables.  Every handler is translated as  *)
(* a chain of steps over a pair (db, loc): db is the content of the        *)
(* tables, loc the handler's local variables with its position pc.  Spec   *)
(* runs a handler to completion in one action (requests one after the      *)
(* other); SpecConc runs the same steps of several requests interleaved,   *)
(* one database statement group at a time.  Litres and money are integers. *)
(***************************************************************************)
EXTENDS Integers, Sequences, FiniteSets, TLC

\* ------------------------------------------------------------- bounds
MaxBatches == 2
MaxSales == 2
MaxCredits == 3
MaxPayments == 3
MaxReturns == 1
MaxLitres == 120
MaxRequests == 5
MaxSettleRequests == 4
MaxRepeatedReturns == 2

\* ---------------------------------------------------- program constants
LitresPerUnit == 25

\* ------------------------------------------------------------- inputs
None == 0
UnknownIds == {9}
CustomerIds == {1}
\* Product.unit of the catalogue's products (id -> unit).
ProductUnit == [p \in {1, 2} |-> p]
DeliveryQtys == {60}
SoldQtys == {-25, 60, 200}
Discounts == {0, 15}
NoPayment == [present |-> FALSE, amount |-> 0]
PayAmounts == {-5, 0, 10, 25}
PaymentInputs == {NoPayment} \cup {[present |-> TRUE, amount |-> a] : a \in PayAmounts}
CreditAmounts == {-5, 10}
CreditTypes == {"credit_added", "credit_used", "credit_refund"}
InitBalances == {0, 10}
Item(p, q) == [product_id |-> p, quantity |-> q, unit_price |-> 10]
ItemLists ==
    { <<>>, <<Item(1, 1)>>, <<Item(1, 0)>>,
      <<Item(1, 1), Item(2, 1)>>, <<Item(1, 1), Item(9, 1)>> }
RItem(i, q, r) == [sale_item_id |-> i, quantity |-> q, refund_amount |-> r]
ReturnItemLists ==
    { <<RItem(1, 1, 10)>>, <<RItem(1, 1, 0)>>, <<RItem(1, 1, 10), RItem(2, 3, 10)>>,
      <<RItem(2, 2, 0)>> }
SaleInput(c, items, discount, payment) ==
    [customer_id |-> c, items |-> items, discount |-> discount, payment |-> payment]
Paid(a) == [present |-> TRUE, amount |-> a]
\* Settlement inputs of the whole-system specification.
SaleInputs ==
    { SaleInput(c, items, 0, Paid(a)) :
          c \in CustomerIds \cup {None},
          items \in {<<Item(1, 1)>>, <<Item(1, 1), Item(2, 1)>>},
          a \in {0, 25} }
    \cup { SaleInput(9, <<Item(1, 1)>>, 0, Paid(10)),
           SaleInput(1, <<Item(1, 1), Item(9, 1)>>, 0, Paid(10)),
           SaleInput(1, <<Item(1, 1)>>, 0, NoPayment) }
\* Settlement inputs of the settlement specification: every money combination.
SettleInputs ==
    [customer_id : CustomerIds, items : {<<>>, <<Item(1, 1)>>},
     discount : Discounts, payment : PaymentInputs]
    \cup { SaleInput(None, items, 0, Paid(10)) : items \in {<<>>, <<Item(1, 1)>>} }
\* Settlement inputs of the concurrent specification.
ConcSaleInputs ==
    { SaleInput(1, items, 0, Paid(a)) :
          items \in {<<Item(1, 1)>>, <<Item(1, 2)>>}, a \in {0, 25} }
\* Settlement inputs of the stock specification: every item list.
StockSaleInputs == { SaleInput(1, items, 0, Paid(10)) : items \in ItemLists }
\* The smaller input sets of the whole-system, settlement and ledger specifications.
SomeSoldQtys == {-25, 200}
SomeCreditTypes == {"credit_added", "credit_used"}
AddedPayAmounts == {-5, 10}
LedgerReturnLists == {<<RItem(1, 1, 10)>>, <<RItem(1, 1, 0)>>}

\* UpdateSaleInput.discount: an optional field.
NoDiscount == [present |-> FALSE, value |-> 0]
NewDiscount(v) == [present |-> TRUE, value |-> v]
\* UpdateSaleInput.customer_id: not given, a customer, an unknown id.
UpdateCustomerIds == {None} \cup CustomerIds \cup UnknownIds
UpdateDiscounts == {NoDiscount, NewDiscount(5)}
\* Settlement inputs of the update specification.
UpdateSaleInputs ==
    { SaleInput(c, <<Item(1, 1)>>, 0, Paid(a)) : c \in CustomerIds \cup {None}, a \in {0, 25} }
    \cup { SaleInput(1, <<Item(1, 1), Item(9, 1)>>, 0, Paid(10)) }

\* Customer.balance, Customer.credit_limit and the amounts of the credit specification.
CreditBalances == {0, 100, 1000}
CreditLimits == {0, 1000}
PurchaseAmounts == {100}

VARIABLES
    stock,        \* StockData rows in creation order; the last one is the latest
    customers,    \* Customer rows: id -> [balance, total_purchases]
    credits,      \* CustomerCredit rows in creation order
    sales,        \* Sale rows, index = id
    saleItems,    \* SaleItem rows, index = id
    payments,     \* Payment rows in creation order
    returns,      \* Return rows, index = id
    returnItems,  \* ReturnItem rows
    result,       \* what the last finished request returned
    requests,     \* how many requests have been handled
    proc          \* the requests in flight (SpecConc): id -> loc

tables == <<stock, customers, credits, sales, saleItems, payments, returns, returnItems>>
vars == <<stock, customers, credits, sales, saleItems, payments, returns, returnItems,
          result, requests, proc>>

DB ==
    [stock |-> stock, customers |-> customers, credits |-> credits, sales |-> sales,
     saleItems |-> saleItems, payments |-> payments, returns |-> returns,
     returnItems |-> returnItems]

Commit(d) ==
    /\ stock' = d.stock
    /\ customers' = d.customers
    /\ credits' = d.credits
    /\ sales' = d.sales
    /\ saleItems' = d.saleItems
    /\ payments' = d.payments
    /\ returns' = d.returns
    /\ returnItems' = d.returnItems

Max(a, b) == IF a >= b THEN a ELSE b
Min(a, b) == IF a <= b THEN a ELSE b
Abs(a) == IF a < 0 THEN -a ELSE a

RECURSIVE SumSeq(_)
SumSeq(s) == IF s = <<>> THEN 0 ELSE Head(s) + SumSeq(Tail(s))

\* ---------------------------------------------------------- StockData

\* StockData.record_sale on the in-memory row rec; ok = FALSE is the ValueError.
record_sale_nosold(rec, quantity_sold) ==
    IF quantity_sold > rec.remaining_stock
    THEN [ok |-> FALSE, rec |-> rec]
    ELSE [ok |-> TRUE,
          rec |-> [rec EXCEPT !.remaining_stock = rec.remaining_stock - quantity_sold]]

\* record_sale refusing the exact remaining quantity too (a variant used to
\* test the boundary of the check).
record_sale_strict(rec, quantity_sold) ==
    IF quantity_sold >= rec.remaining_stock
    THEN [ok |-> FALSE, rec |-> rec]
    ELSE [ok |-> TRUE,
          rec |-> [rec EXCEPT !.sold_stock = rec.sold_stock + quantity_sold,
                              !.remaining_stock =
                                  rec.cumulative_stock - (rec.sold_stock + quantity_sold)]]

record_sale(rec, quantity_sold) ==
    IF quantity_sold > rec.remaining_stock
    THEN [ok |-> FALSE, rec |-> rec]
    ELSE [ok |-> TRUE,
          rec |-> [rec EXCEPT !.sold_stock = rec.sold_stock + quantity_sold,
                              !.remaining_stock =
                                  rec.cumulative_stock - (rec.sold_stock + quantity_sold)]]

create_new_delivery(delivered_quantity, previous_remaining) ==
    [cumulative_stock |-> previous_remaining + delivered_quantity,
     remaining_stock |-> previous_remaining + delivered_quantity,
     sold_stock |-> 0]

\* StockData.objects.order_by("-created_at").first(): the id of the latest row, 0 if none.
latest_stock_record(d) == Len(d.stock)

get_latest_remaining_stock(d) ==
    IF Len(d.stock) = 0 THEN 0 ELSE d.stock[Len(d.stock)].remaining_stock

\* The availability computation of CreateSale.mutate (units of the product).
available_stock(d, unit) ==
    IF get_latest_remaining_stock(d) <= 0 \/ unit <= 0
    THEN 0
    ELSE get_latest_remaining_stock(d) \div (unit * LitresPerUnit)

\* ----------------------------------------------------------- Customer

get_current_credit_balance(d, c) ==
    LET mine == SelectSeq(d.credits, LAMBDA e : e.customer = c)
    IN  IF Len(mine) > 0 THEN mine[Len(mine)].balance_after ELSE d.customers[c].balance

CreditRow(c, type, amount, balance_after, sale) ==
    [customer |-> c, transaction_type |-> type, amount |-> amount,
     balance_after |-> balance_after, sale |-> sale]

\* customers/models.py 85-92.
available_credit(credit_limit, balance) == Max(0, credit_limit + balance)

\* customers/models.py 94-97.
is_credit_available(customer) ==
    available_credit(customer.credit_limit, customer.balance) > 0

\* customers/models.py 111-122.
add_purchase(customer, amount) ==
    [customer EXCEPT !.balance = @ + amount, !.total_purchases = @ + amount]

\* customers/models.py 124-127.
make_payment(customer, amount) ==
    [customer EXCEPT !.balance = Max(0, @ - amount)]

\* ---------------------------------------------------- CreateSale.mutate

NoCustomer == [id |-> None, balance |-> 0, total_purchases |-> 0]
NoRecord == [id |-> 0, cumulative_stock |-> 0, sold_stock |-> 0, remaining_stock |-> 0]
NoSale == [customer |-> None, discount |-> 0, subtotal |-> 0, total |-> 0, balance |-> 0,
           credit_applied |-> 0, amount_due |-> 0]
NoReturn == [original_sale |-> 0, customer |-> None, status |-> "none",
             total_refund_amount |-> 0, approved_by |-> 0]
NoInput == [customer_id |-> None, items |-> <<>>, discount |-> 0, payment |-> NoPayment]

\* The locals of a request that is not running.
IdleLoc ==
    [pc |-> "idle", op |-> "none", success |-> FALSE, input |-> NoInput,
     customer |-> NoCustomer, sale_id |-> 0, sale |-> NoSale, i |-> 1, subtotal |-> 0,
     litres_sold |-> 0, latest_stock_record |-> NoRecord, total_payments |-> 0,
     credit_applied |-> 0, current_customer_balance |-> 0, amount |-> 0,
     transaction_type |-> "none", target |-> 0, ret |-> NoReturn, items |-> <<>>]

St(d, l) == [db |-> d, loc |-> l]

\* except Exception: the handler returns success=False from inside the
\* @transaction.atomic function, so the block exits normally and what was
\* written so far is committed.
CS_Except(d, l) == St(d, [l EXCEPT !.pc = "done", !.success = FALSE])

\* Lines 44-61: resolve the customer, create the sale shell.
CS_Resolve(d, l) ==
    LET cid == l.input.customer_id
        shell == [NoSale EXCEPT !.customer = cid, !.discount = l.input.discount]
    IN  IF cid # None /\ cid \notin DOMAIN d.customers
        THEN St(d, [l EXCEPT !.pc = "done", !.success = FALSE])
        ELSE St([d EXCEPT !.sales = Append(@, shell)],
                [l EXCEPT !.pc = IF Len(l.input.items) = 0 THEN "totals" ELSE "check",
                          !.customer = IF cid = None THEN NoCustomer
                                       ELSE [id |-> cid,
                                             balance |-> d.customers[cid].balance,
                                             total_purchases |->
                                                 d.customers[cid].total_purchases],
                          !.sale_id = Len(d.sales) + 1,
                          !.sale = shell,
                          !.i = 1,
                          !.subtotal = 0])

\* Lines 66-97, 110-111: product lookup, availability check, SaleItem row.
CS_Check(d, l) ==
    LET item == l.input.items[l.i]
    IN  IF item.product_id \notin DOMAIN ProductUnit
        THEN CS_Except(d, l)
        ELSE IF available_stock(d, ProductUnit[item.product_id]) < item.quantity
        THEN CS_Except(d, l)
        ELSE St([d EXCEPT !.saleItems =
                     Append(@, [sale |-> l.sale_id, product |-> item.product_id,
                                quantity |-> item.quantity,
                                unit_price |-> item.unit_price,
                                total_price |-> item.unit_price * item.quantity])],
                [l EXCEPT !.pc = "read_stock"])

\* Lines 100-103: litres_sold, and the latest stock row read into memory.
CS_ReadStock(d, l) ==
    LET item == l.input.items[l.i]
        id == latest_stock_record(d)
    IN  St(d, [l EXCEPT !.pc = "record",
                        !.litres_sold =
                            ProductUnit[item.product_id] * LitresPerUnit * item.quantity,
                        !.latest_stock_record =
                            IF id = 0 THEN NoRecord
                            ELSE [id |-> id,
                                  cumulative_stock |-> d.stock[id].cumulative_stock,
                                  sold_stock |-> d.stock[id].sold_stock,
                                  remaining_stock |-> d.stock[id].remaining_stock]])

\* Lines 104-108: record_sale on the in-memory row, save() of all its fields.
CS_Record(d, l) ==
    LET item == l.input.items[l.i]
        rec == l.latest_stock_record
        r == record_sale(rec, l.litres_sold)
        next == [l EXCEPT !.pc = IF l.i < Len(l.input.items) THEN "check" ELSE "totals",
                          !.i = l.i + 1,
                          !.subtotal = l.subtotal + item.unit_price * item.quantity]
    IN  IF rec.id = 0
        THEN St(d, next)
        ELSE IF ~r.ok
        THEN CS_Except(d, l)
        ELSE St([d EXCEPT !.stock[rec.id] =
                     [cumulative_stock |-> r.rec.cumulative_stock,
                      sold_stock |-> r.rec.sold_stock,
                      remaining_stock |-> r.rec.remaining_stock]],
                [next EXCEPT !.latest_stock_record = r.rec])

\* Lines 114-116: subtotal and total, sale.save().
CS_Totals(d, l) ==
    LET sale == [l.sale EXCEPT !.subtotal = l.subtotal,
                               !.total = l.subtotal - l.sale.discount]
    IN  St([d EXCEPT !.sales[l.sale_id] = sale], [l EXCEPT !.pc = "payment", !.sale = sale])

\* Lines 119-126: the Payment row; reading a payment the input does not hold raises.
CS_Payment(d, l) ==
    IF ~l.input.payment.present
    THEN CS_Except(d, l)
    ELSE St([d EXCEPT !.payments =
                 Append(@, [sale |-> l.sale_id, amount |-> l.input.payment.amount])],
            [l EXCEPT !.pc = IF l.customer.id # None THEN "read_balance" ELSE "finalize",
                      !.total_payments = l.input.payment.amount,
                      !.credit_applied = 0,
                      !.current_customer_balance = 0])

\* Lines 132-135: the customer's current credit balance.
CS_ReadBalance(d, l) ==
    St(d, [l EXCEPT !.pc = "credit_used",
                    !.current_customer_balance =
                        get_current_credit_balance(d, l.customer.id)])

\* customer.save(): every field of the in-memory customer is written.
SaveCustomer(d, customer) ==
    [d EXCEPT !.customers[customer.id] =
        [balance |-> customer.balance, total_purchases |-> customer.total_purchases]]

\* Lines 138-157 with the balance left as it was (a variant used to test the
\* conservation of money).
CS_CreditUsed_kept(d, l) ==
    IF l.current_customer_balance > 0
    THEN LET credit_applied == Min(l.current_customer_balance, l.sale.total)
             balance == l.current_customer_balance
             customer == [l.customer EXCEPT !.balance = balance]
         IN  St(SaveCustomer(
                    [d EXCEPT !.credits =
                        Append(@, CreditRow(l.customer.id, "credit_used", credit_applied,
                                            balance, l.sale_id))],
                    customer),
                [l EXCEPT !.pc = "settle", !.credit_applied = credit_applied,
                          !.current_customer_balance = balance, !.customer = customer])
    ELSE St(d, [l EXCEPT !.pc = "settle"])

\* Lines 138-157: available credit is applied first.
CS_CreditUsed(d, l) ==
    IF l.current_customer_balance > 0
    THEN LET credit_applied == Min(l.current_customer_balance, l.sale.total)
             balance == l.current_customer_balance - credit_applied
             customer == [l.customer EXCEPT !.balance = balance]
         IN  St(SaveCustomer(
                    [d EXCEPT !.credits =
                        Append(@, CreditRow(l.customer.id, "credit_used", credit_applied,
                                            balance, l.sale_id))],
                    customer),
                [l EXCEPT !.pc = "settle", !.credit_applied = credit_applied,
                          !.current_customer_balance = balance, !.customer = customer])
    ELSE St(d, [l EXCEPT !.pc = "settle"])

\* Lines 160-206 with the overpayment branch left out (a variant used to
\* test the settlement property).
CS_Settle_nocredit(d, l) ==
    LET final_balance == l.sale.total - l.credit_applied - l.total_payments
        balance == l.current_customer_balance - final_balance
        customer == [l.customer EXCEPT !.balance = balance]
    IN  IF final_balance <= 0
        THEN St(d, [l EXCEPT !.pc = "purchases"])
        ELSE St(SaveCustomer(
                    [d EXCEPT !.credits =
                        Append(@, CreditRow(l.customer.id, "debt_incurred", final_balance,
                                            balance, l.sale_id))],
                    customer),
                [l EXCEPT !.pc = "purchases", !.current_customer_balance = balance,
                          !.customer = customer])

\* Lines 160-206: what is still owed becomes debt, an overpayment becomes credit.
CS_Settle(d, l) ==
    LET amount_owed_after_credit == l.sale.total - l.credit_applied
        final_balance == amount_owed_after_credit - l.total_payments
        type == IF final_balance > 0 THEN "debt_incurred" ELSE "credit_earned"
        balance == IF final_balance > 0
                   THEN l.current_customer_balance - final_balance
                   ELSE l.current_customer_balance + Abs(final_balance)
        customer == [l.customer EXCEPT !.balance = balance]
    IN  IF final_balance = 0
        THEN St(d, [l EXCEPT !.pc = "purchases"])
        ELSE St(SaveCustomer(
                    [d EXCEPT !.credits =
                        Append(@, CreditRow(l.customer.id, type, Abs(final_balance),
                                            balance, l.sale_id))],
                    customer),
                [l EXCEPT !.pc = "purchases", !.current_customer_balance = balance,
                          !.customer = customer])

\* Lines 209-213: total_purchases, saved with update_fields (balance is not written).
CS_Purchases(d, l) ==
    LET total_purchases == l.customer.total_purchases + l.sale.total
    IN  St([d EXCEPT !.customers[l.customer.id].total_purchases = total_purchases],
           [l EXCEPT !.pc = "finalize", !.customer.total_purchases = total_purchases])

\* Lines 216-232: credit_applied, amount_due and balance of the sale; success.
CS_Finalize(d, l) ==
    LET amount_due == Max(0, l.sale.total - l.credit_applied - l.total_payments)
        sale == [l.sale EXCEPT !.credit_applied = l.credit_applied,
                               !.amount_due = amount_due,
                               !.balance = amount_due]
    IN  St([d EXCEPT !.sales[l.sale_id] = sale],
           [l EXCEPT !.pc = "done", !.success = TRUE, !.sale = sale])

\* One step of CreateSale.mutate from position l.pc.
CS_Step(d, l) ==
    CASE l.pc = "start" -> CS_Resolve(d, l)
      [] l.pc = "check" -> CS_Check(d, l)
      [] l.pc = "read_stock" -> CS_ReadStock(d, l)
      [] l.pc = "record" -> CS_Record(d, l)
      [] l.pc = "totals" -> CS_Totals(d, l)
      [] l.pc = "payment" -> CS_Payment(d, l)
      [] l.pc = "read_balance" -> CS_ReadBalance(d, l)
      [] l.pc = "credit_used" -> CS_CreditUsed(d, l)
      [] l.pc = "settle" -> CS_Settle(d, l)
      [] l.pc = "purchases" -> CS_Purchases(d, l)
      [] l.pc = "finalize" -> CS_Finalize(d, l)

\* The handler run from start to return, with no other request in between.
RECURSIVE CS_Run(_)
CS_Run(s) == IF s.loc.pc = "done" THEN s ELSE CS_Run(CS_Step(s.db, s.loc))

CreateSale_mutate(d, input) ==
    CS_Run(St(d, [IdleLoc EXCEPT !.pc = "start", !.op = "CreateSale", !.input = input]))

\* ---------------------------------------------------- AddPayment.mutate

\* Lines 347-380; has_balance: the input carries the balance attribute that
\* line 356 reads (reading it from an input without it raises before the
\* Payment row is created).
AddPayment_mutate(d, sale_id, amount, has_balance) ==
    IF sale_id \notin 1..Len(d.sales) \/ ~has_balance
    THEN [db |-> d, success |-> FALSE]
    ELSE [db |-> [d EXCEPT !.payments = Append(@, [sale |-> sale_id, amount |-> amount]),
                           !.sales[sale_id].balance = @ - amount,
                           !.sales[sale_id].amount_due = Max(0, @ - amount)],
          success |-> TRUE]

\* --------------------------------------------- AddCustomerCredit.mutate

\* Lines 396-405: the customer and the balance_after of its latest entry, else 0.
ACC_Read(d, l) ==
    LET mine == SelectSeq(d.credits, LAMBDA e : e.customer = l.target)
    IN  IF l.target \notin DOMAIN d.customers
        THEN St(d, [l EXCEPT !.pc = "done", !.success = FALSE])
        ELSE St(d, [l EXCEPT !.pc = "post",
                            !.current_customer_balance =
                                IF Len(mine) > 0 THEN mine[Len(mine)].balance_after ELSE 0])

\* The new balance of lines 408-417 (credit_used beyond the balance raises).
ACC_NewBalance_flipped(current_balance, transaction_type, amount) ==
    IF transaction_type = "credit_used"
    THEN current_balance + amount
    ELSE current_balance - amount

ACC_NewBalance(current_balance, transaction_type, amount) ==
    IF transaction_type = "credit_used"
    THEN current_balance - amount
    ELSE current_balance + amount

\* Lines 408-441: the entry is created; Customer.balance is not touched.
ACC_Post(d, l) ==
    IF l.transaction_type = "credit_used" /\ l.current_customer_balance < l.amount
    THEN St(d, [l EXCEPT !.pc = "done", !.success = FALSE])
    ELSE St([d EXCEPT !.credits =
                 Append(@, CreditRow(l.target, l.transaction_type, l.amount,
                                     ACC_NewBalance(l.current_customer_balance,
                                                    l.transaction_type, l.amount),
                                     None))],
            [l EXCEPT !.pc = "done", !.success = TRUE])

ACC_Step(d, l) ==
    CASE l.pc = "start" -> ACC_Read(d, l)
      [] l.pc = "post" -> ACC_Post(d, l)

RECURSIVE ACC_Run(_)
ACC_Run(s) == IF s.loc.pc = "done" THEN s ELSE ACC_Run(ACC_Step(s.db, s.loc))

AddCustomerCredit_mutate(d, customer_id, transaction_type, amount) ==
    ACC_Run(St(d, [IdleLoc EXCEPT !.pc = "start", !.op = "AddCustomerCredit",
                                  !.target = customer_id,
                                  !.transaction_type = transaction_type,
                                  !.amount = amount]))

\* ---------------------------------------------------- stock mutations

\* CreateStockDelivery.mutate: create_new_delivery, full_clean, save.
CreateStockDelivery_mutate(d, delivered_quantity, previous_remaining) ==
    LET row == create_new_delivery(delivered_quantity, previous_remaining)
    IN  IF delivered_quantity < 0 \/ row.cumulative_stock < 0
        THEN [db |-> d, success |-> FALSE]
        ELSE [db |-> [d EXCEPT !.stock = Append(@, row)], success |-> TRUE]

\* RecordSale.mutate: record_sale on the chosen row, save.
RecordSale_mutate(d, stock_data_id, quantity_sold) ==
    IF stock_data_id \notin 1..Len(d.stock)
    THEN [db |-> d, success |-> FALSE]
    ELSE LET r == record_sale(d.stock[stock_data_id], quantity_sold)
         IN  IF r.ok
             THEN [db |-> [d EXCEPT !.stock[stock_data_id] = r.rec], success |-> TRUE]
             ELSE [db |-> d, success |-> FALSE]

\* --------------------------------------------------- CreateReturn.mutate

\* Lines 499-525: the items from index i on; ok = FALSE is a raised ValueError.
RECURSIVE CR_Items(_, _, _, _, _)
CR_Items(d, return_id, sale_id, items, total_refund) ==
    IF items = <<>>
    THEN [db |-> d, ok |-> TRUE, total_refund |-> total_refund]
    ELSE LET item == Head(items)
             found == item.sale_item_id \in 1..Len(d.saleItems)
                      /\ d.saleItems[item.sale_item_id].sale = sale_id
         IN  IF ~found
             THEN [db |-> d, ok |-> FALSE, total_refund |-> total_refund]
             ELSE IF item.quantity > d.saleItems[item.sale_item_id].quantity
             THEN [db |-> d, ok |-> FALSE, total_refund |-> total_refund]
             ELSE CR_Items(
                      [d EXCEPT !.returnItems =
                          Append(@, [return_request |-> return_id,
                                     original_sale_item |-> item.sale_item_id,
                                     product |-> d.saleItems[item.sale_item_id].product,
                                     quantity |-> item.quantity,
                                     refund_amount |-> item.refund_amount])],
                      return_id, sale_id, Tail(items), total_refund + item.refund_amount)

\* Lines 468-543.  An item's error is caught inside the atomic function: the Return
\* row and the items created before it stay.
CreateReturn_mutate(d, sale_id, items) ==
    IF sale_id \notin 1..Len(d.sales)
    THEN [db |-> d, success |-> FALSE]
    ELSE IF d.sales[sale_id].customer = None
    THEN [db |-> d, success |-> FALSE]
    ELSE LET return_id == Len(d.returns) + 1
             row == [NoReturn EXCEPT !.original_sale = sale_id,
                                     !.customer = d.sales[sale_id].customer,
                                     !.status = "pending"]
             r == CR_Items([d EXCEPT !.returns = Append(@, row)], return_id, sale_id,
                           items, 0)
         IN  IF r.ok
             THEN [db |-> [r.db EXCEPT !.returns[return_id].total_refund_amount =
                                           r.total_refund],
                   success |-> TRUE]
             ELSE [db |-> r.db, success |-> FALSE]

\* ------------------------------- ApproveReturn.mutate, Return.approve_return

\* sale_mutations.py 560-577: the Return row is read into memory.
AR_Get(d, l) ==
    IF l.target \notin 1..Len(d.returns)
    THEN St(d, [l EXCEPT !.pc = "done", !.success = FALSE])
    ELSE St(d, [l EXCEPT !.pc = "check", !.ret = d.returns[l.target]])

\* models.py 163-172 without the status test (a variant used to test the
\* status property).
AR_Check_anystatus(d, l) ==
    LET ids == SelectSeq([k \in 1..Len(d.returnItems) |-> k],
                         LAMBDA k : d.returnItems[k].return_request = l.target)
    IN  St(d, [l EXCEPT !.pc = IF Len(ids) = 0 THEN "refund" ELSE "item",
                        !.ret = [l.ret EXCEPT !.status = "approved",
                                              !.approved_by = 1],
                        !.items = ids,
                        !.i = 1])

\* models.py 163-172: only a pending return; the items are fetched.
AR_Check(d, l) ==
    LET ids == SelectSeq([k \in 1..Len(d.returnItems) |-> k],
                         LAMBDA k : d.returnItems[k].return_request = l.target)
    IN  IF l.ret.status # "pending"
        THEN St(d, [l EXCEPT !.pc = "done", !.success = FALSE])
        ELSE St(d, [l EXCEPT !.pc = IF Len(ids) = 0 THEN "refund" ELSE "item",
                            !.ret = [l.ret EXCEPT !.status = "approved",
                                                  !.approved_by = 1],
                            !.items = ids,
                            !.i = 1])

\* models.py 183-189 on the latest stock row.
reverse_sale(row, returned_litres) ==
    [row EXCEPT !.sold_stock = Max(0, row.sold_stock - returned_litres),
                !.remaining_stock =
                    row.cumulative_stock - Max(0, row.sold_stock - returned_litres)]

\* models.py 172-190: one returned item goes back to the latest stock row.
AR_Item(d, l) ==
    LET item == d.returnItems[l.items[l.i]]
        id == latest_stock_record(d)
        returned_litres == ProductUnit[item.product] * LitresPerUnit * item.quantity
        next == [l EXCEPT !.pc = IF l.i < Len(l.items) THEN "item" ELSE "refund",
                          !.i = l.i + 1]
    IN  IF id = 0
        THEN St(d, next)
        ELSE St([d EXCEPT !.stock[id] = reverse_sale(d.stock[id], returned_litres)], next)

\* models.py 193-207: the refund is posted as credit and Customer.balance follows.
AR_Refund(d, l) ==
    LET c == l.ret.customer
        new_balance == get_current_credit_balance(d, c) + l.ret.total_refund_amount
    IN  IF l.ret.total_refund_amount > 0
        THEN St([d EXCEPT !.credits =
                     Append(@, CreditRow(c, "credit_refund", l.ret.total_refund_amount,
                                         new_balance, None)),
                          !.customers[c].balance = new_balance],
                [l EXCEPT !.pc = "complete"])
        ELSE St(d, [l EXCEPT !.pc = "complete"])

\* models.py 209-210: completed, self.save().
AR_Complete(d, l) ==
    LET ret == [l.ret EXCEPT !.status = "completed"]
    IN  St([d EXCEPT !.returns[l.target] = ret],
           [l EXCEPT !.pc = "done", !.success = TRUE, !.ret = ret])

AR_Step(d, l) ==
    CASE l.pc = "start" -> AR_Get(d, l)
      [] l.pc = "check" -> AR_Check(d, l)
      [] l.pc = "item" -> AR_Item(d, l)
      [] l.pc = "refund" -> AR_Refund(d, l)
      [] l.pc = "complete" -> AR_Complete(d, l)

RECURSIVE AR_Run(_)
AR_Run(s) == IF s.loc.pc = "done" THEN s ELSE AR_Run(AR_Step(s.db, s.loc))

ApproveReturn_mutate(d, return_id) ==
    AR_Run(St(d, [IdleLoc EXCEPT !.pc = "start", !.op = "ApproveReturn",
                                 !.target = return_id]))

\* reject_return that also posts the refund (a variant used to test the
\* frame of a rejection).
RejectReturn_mutate_refund(d, return_id) ==
    IF return_id \notin 1..Len(d.returns)
    THEN [db |-> d, success |-> FALSE]
    ELSE IF d.returns[return_id].status # "pending"
    THEN [db |-> d, success |-> FALSE]
    ELSE [db |-> [d EXCEPT !.returns[return_id].status = "rejected",
                           !.returns[return_id].approved_by = 1,
                           !.customers[d.returns[return_id].customer].balance =
                               @ + d.returns[return_id].total_refund_amount],
          success |-> TRUE]

\* RejectReturn.mutate, Return.reject_return (models.py 212-221).
RejectReturn_mutate(d, return_id) ==
    IF return_id \notin 1..Len(d.returns)
    THEN [db |-> d, success |-> FALSE]
    ELSE IF d.returns[return_id].status # "pending"
    THEN [db |-> d, success |-> FALSE]
    ELSE [db |-> [d EXCEPT !.returns[return_id].status = "rejected",
                           !.returns[return_id].approved_by = 1],
          success |-> TRUE]

\* RejectReturn.mutate step by step: sale_mutations.py 619-627, the Return
\* row is read into memory.
RR_Get(d, l) ==
    IF l.target \notin 1..Len(d.returns)
    THEN St(d, [l EXCEPT !.pc = "done", !.success = FALSE])
    ELSE St(d, [l EXCEPT !.pc = "reject", !.ret = d.returns[l.target]])

\* models.py 212-221: only a pending return; self.save() writes the row read.
RR_Reject(d, l) ==
    LET ret == [l.ret EXCEPT !.status = "rejected", !.approved_by = 1]
    IN  IF l.ret.status # "pending"
        THEN St(d, [l EXCEPT !.pc = "done", !.success = FALSE])
        ELSE St([d EXCEPT !.returns[l.target] = ret],
                [l EXCEPT !.pc = "done", !.success = TRUE, !.ret = ret])

RR_Step(d, l) ==
    CASE l.pc = "start" -> RR_Get(d, l)
      [] l.pc = "reject" -> RR_Reject(d, l)

\* ------------------------------------------- DeleteCustomerMutation.mutate

\* customer.delete(): the ledger entries and the returns of the customer go
\* with it (on_delete=CASCADE, the return items with their return), the
\* customer's sales stay without a customer (on_delete=SET_NULL).  Rows are
\* addressed by position, so the return items left point at the new position
\* of their return.
delete_customer(d, id) ==
    LET kept(r) == d.returns[r].customer # id
        position(r) == Cardinality({k \in 1..r : kept(k)})
        items == SelectSeq(d.returnItems, LAMBDA it : kept(it.return_request))
    IN  [d EXCEPT !.customers = [c \in DOMAIN d.customers \ {id} |-> d.customers[c]],
                  !.credits = SelectSeq(d.credits, LAMBDA e : e.customer # id),
                  !.returns = SelectSeq(d.returns, LAMBDA r : r.customer # id),
                  !.returnItems =
                      [k \in 1..Len(items) |->
                          [items[k] EXCEPT !.return_request = position(@)]],
                  !.sales = [s \in 1..Len(d.sales) |->
                                IF d.sales[s].customer = id
                                THEN [d.sales[s] EXCEPT !.customer = None]
                                ELSE d.sales[s]]]

\* customer_mutations.py 158-181: only a balance above zero stops the deletion.
DeleteCustomer_mutate(d, id) ==
    IF id \notin DOMAIN d.customers
    THEN [db |-> d, success |-> FALSE]
    ELSE IF d.customers[id].balance > 0
    THEN [db |-> d, success |-> FALSE]
    ELSE [db |-> delete_customer(d, id), success |-> TRUE]

\* ------------------------------- UpdateSale.mutate, Sale.calculate_totals

\* sum(payment.amount for payment in sale.payments.all() if payment.amount)
total_payments_of(d, sale_id) ==
    SumSeq([k \in 1..Len(d.payments) |->
               IF d.payments[k].sale = sale_id THEN d.payments[k].amount ELSE 0])

\* sale_mutations.py 254-332: customer and discount are replaced, the total,
\* credit_applied, amount_due and balance are recomputed in memory, and the
\* sale is saved; no ledger entry is posted and no customer is written.
UpdateSale_mutate(d, sale_id, customer_id, discount) ==
    IF sale_id \notin 1..Len(d.sales)
    THEN [db |-> d, success |-> FALSE]
    ELSE IF customer_id # None /\ customer_id \notin DOMAIN d.customers
    THEN [db |-> d, success |-> FALSE]
    ELSE LET old == d.sales[sale_id]
             customer == IF customer_id # None THEN customer_id ELSE old.customer
             new_discount == IF discount.present THEN discount.value ELSE old.discount
             total == old.subtotal - new_discount
             total_payments == total_payments_of(d, sale_id)
             amount_owed_after_payments == total - total_payments
             current_customer_balance ==
                 IF customer # None THEN get_current_credit_balance(d, customer) ELSE 0
             credit_applied ==
                 IF customer # None /\ amount_owed_after_payments > 0
                    /\ current_customer_balance > 0
                 THEN Min(current_customer_balance, amount_owed_after_payments)
                 ELSE 0
             amount_due == Max(0, total - total_payments - credit_applied)
         IN  [db |-> [d EXCEPT !.sales[sale_id] =
                         [customer |-> customer, discount |-> new_discount,
                          subtotal |-> old.subtotal, total |-> total,
                          balance |-> amount_due, credit_applied |-> credit_applied,
                          amount_due |-> amount_due]],
              success |-> TRUE]

\* models.py 58-63: the subtotal is recomputed from the items; the difference
\* subtotal - discount is kept in total_amount, which is no column of Sale, so
\* save() leaves total as it was.
calculate_totals(d, sale_id) ==
    LET subtotal == SumSeq([k \in 1..Len(d.saleItems) |->
                               IF d.saleItems[k].sale = sale_id
                               THEN d.saleItems[k].total_price ELSE 0])
        total_amount == subtotal - d.sales[sale_id].discount
    IN  [d EXCEPT !.sales[sale_id].subtotal = subtotal,
                  !.sales[sale_id].amount_due =
                      Max(0, total_amount - d.sales[sale_id].credit_applied)]

\* ------------------------------------------------ requests, one at a time

Procs == {1, 2}
Result(op, success) == [op |-> op, success |-> success]

Init ==
    /\ stock = <<>>
    /\ customers \in [CustomerIds -> [balance : InitBalances, total_purchases : {0}]]
    /\ credits = <<>>
    /\ sales = <<>>
    /\ saleItems = <<>>
    /\ payments = <<>>
    /\ returns = <<>>
    /\ returnItems = <<>>
    /\ result = Result("none", FALSE)
    /\ requests = 0
    /\ proc = [p \in Procs |-> IdleLoc]

\* A request is handled from start to return: its tables and its result.
Handled(op, d, success) ==
    /\ requests < MaxRequests
    /\ Commit(d)
    /\ result' = Result(op, success)
    /\ requests' = requests + 1
    /\ UNCHANGED proc

CreateStockDelivery(Qtys) ==
    \E q \in Qtys, prev \in {0, get_latest_remaining_stock(DB)} :
        /\ Len(stock) < MaxBatches
        /\ prev + q <= MaxLitres
        /\ LET r == CreateStockDelivery_mutate(DB, q, prev)
           IN  Handled("CreateStockDelivery", r.db, r.success)

RecordSale(Qtys) ==
    \E id \in 1..Len(stock), q \in Qtys :
        /\ stock[id].remaining_stock - q <= MaxLitres
        /\ LET r == RecordSale_mutate(DB, id, q)
           IN  Handled("RecordSale", r.db, r.success)

CreateSale(Inputs) ==
    \E input \in Inputs :
        /\ Len(sales) < MaxSales
        /\ LET r == CreateSale_mutate(DB, input)
           IN  Handled("CreateSale", r.db, r.loc.success)

AddPayment(Amounts) ==
    \E sale_id \in (1..Len(sales)) \cup UnknownIds, amount \in Amounts,
       has_balance \in BOOLEAN :
        /\ Len(payments) < MaxPayments
        /\ LET r == AddPayment_mutate(DB, sale_id, amount, has_balance)
           IN  Handled("AddPayment", r.db, r.success)

AddCustomerCredit(Types, Amounts) ==
    \E c \in CustomerIds \cup UnknownIds, type \in Types, amount \in Amounts :
        /\ Len(credits) < MaxCredits
        /\ LET r == AddCustomerCredit_mutate(DB, c, type, amount)
           IN  Handled("AddCustomerCredit", r.db, r.loc.success)

CreateReturnOf(Lists, limit) ==
    \E sale_id \in (1..Len(sales)) \cup UnknownIds, items \in Lists :
        /\ Len(returns) < limit
        /\ LET r == CreateReturn_mutate(DB, sale_id, items)
           IN  Handled("CreateReturn", r.db, r.success)

CreateReturn(Lists) == CreateReturnOf(Lists, MaxReturns)

ApproveReturn ==
    \E return_id \in (1..Len(returns)) \cup UnknownIds :
        LET r == ApproveReturn_mutate(DB, return_id)
        IN  Handled("ApproveReturn", r.db, r.loc.success)

RejectReturn ==
    \E return_id \in (1..Len(returns)) \cup UnknownIds :
        LET r == RejectReturn_mutate(DB, return_id)
        IN  Handled("RejectReturn", r.db, r.success)

\* The whole system, on few inputs.
Next ==
    \/ CreateStockDelivery(DeliveryQtys)
    \/ RecordSale(SomeSoldQtys)
    \/ CreateSale(SaleInputs)
    \/ AddPayment({10})
    \/ AddCustomerCredit(SomeCreditTypes, {10})
    \/ CreateReturn({<<RItem(1, 1, 10)>>})
    \/ ApproveReturn
    \/ RejectReturn

Spec == Init /\ [][Next]_vars

\* Settlement and later payments, on every money combination.
SettleNext ==
    \/ requests < MaxSettleRequests /\ CreateStockDelivery(DeliveryQtys)
    \/ requests < MaxSettleRequests /\ CreateSale(SettleInputs)
    \/ requests < MaxSettleRequests /\ AddPayment(AddedPayAmounts)

SpecSettle == Init /\ [][SettleNext]_vars

\* The stock ledger: deliveries, sales of every item list, returns.
StockNext ==
    \/ CreateStockDelivery(DeliveryQtys)
    \/ RecordSale(SoldQtys)
    \/ CreateSale(StockSaleInputs)
    \/ CreateReturn(ReturnItemLists)
    \/ ApproveReturn

SpecStock == Init /\ [][StockNext]_vars

\* The credit ledger: settlements, refunds and manual postings.
LedgerNext ==
    \/ CreateStockDelivery(DeliveryQtys)
    \/ CreateSale(SaleInputs)
    \/ AddCustomerCredit(CreditTypes, CreditAmounts)
    \/ CreateReturn(LedgerReturnLists)
    \/ ApproveReturn

SpecLedger == Init /\ [][LedgerNext]_vars

\* The life of a return: a sale, its return, approvals and rejections.
ReturnLists == {<<RItem(1, 1, 10)>>, <<RItem(1, 1, 0)>>, <<RItem(1, 2, 10)>>}
ReturnSaleInputs == { SaleInput(1, <<Item(1, 1)>>, 0, Paid(a)) : a \in {0, 25} }
ReturnNext ==
    \/ CreateStockDelivery(DeliveryQtys)
    \/ CreateSale(ReturnSaleInputs)
    \/ CreateReturn(ReturnLists)
    \/ ApproveReturn
    \/ RejectReturn

SpecReturn == Init /\ [][ReturnNext]_vars

\* The life of a customer: sales, returns, and the deletion of the customer.
DeleteCustomer ==
    \E id \in CustomerIds \cup UnknownIds :
        LET r == DeleteCustomer_mutate(DB, id)
        IN  Handled("DeleteCustomer", r.db, r.success)

CustomerNext ==
    \/ CreateStockDelivery(DeliveryQtys)
    \/ CreateSale(ReturnSaleInputs)
    \/ CreateReturn(LedgerReturnLists)
    \/ ApproveReturn
    \/ DeleteCustomer

SpecCustomer == Init /\ [][CustomerNext]_vars

\* Later changes of a sale: UpdateSale and the admin's "Recalculate totals".
UpdateSale ==
    \E sale_id \in (1..Len(sales)) \cup UnknownIds,
       customer_id \in UpdateCustomerIds,
       discount \in UpdateDiscounts :
        LET r == UpdateSale_mutate(DB, sale_id, customer_id, discount)
        IN  Handled("UpdateSale", r.db, r.success)

CalculateTotals ==
    \E sale_id \in 1..Len(sales) :
        Handled("CalculateTotals", calculate_totals(DB, sale_id), TRUE)

UpdateNext ==
    \/ CreateStockDelivery(DeliveryQtys)
    \/ CreateSale(UpdateSaleInputs)
    \/ UpdateSale
    \/ CalculateTotals

SpecUpdate == Init /\ [][UpdateNext]_vars

\* The credit line of a customer: the rows carry credit_limit as well.
CreditInit ==
    /\ stock = <<>>
    /\ customers \in [CustomerIds -> [balance : CreditBalances, total_purchases : {0},
                                      credit_limit : CreditLimits]]
    /\ credits = <<>>
    /\ sales = <<>>
    /\ saleItems = <<>>
    /\ payments = <<>>
    /\ returns = <<>>
    /\ returnItems = <<>>
    /\ result = Result("none", FALSE)
    /\ requests = 0
    /\ proc = [p \in Procs |-> IdleLoc]

AddPurchase ==
    \E c \in CustomerIds, amount \in PurchaseAmounts :
        Handled("add_purchase",
                [DB EXCEPT !.customers[c] = add_purchase(customers[c], amount)], TRUE)

MakePayment ==
    \E c \in CustomerIds, amount \in PurchaseAmounts :
        Handled("make_payment",
                [DB EXCEPT !.customers[c] = make_payment(customers[c], amount)], TRUE)

IsCreditAvailable ==
    \E c \in CustomerIds :
        Handled("is_credit_available", DB, is_credit_available(customers[c]))

CreditNext ==
    \/ AddPurchase
    \/ MakePayment
    \/ IsCreditAvailable

SpecCredit == CreditInit /\ [][CreditNext]_vars

\* --------------------------------------------------- requests in parallel
\* Two requests run at once.  Each step is one group of database statements of
\* a handler; the source takes no lock (no select_for_update, no version
\* column), so the steps of different requests interleave freely, and a row
\* saved by one request overwrites what another saved since the row was read.

ConcInit ==
    /\ stock = <<create_new_delivery(60, 0)>>
    /\ customers \in [CustomerIds -> [balance : InitBalances, total_purchases : {0}]]
    /\ credits = <<>>
    /\ sales = <<>>
    /\ saleItems = <<>>
    /\ payments = <<>>
    /\ returns = <<>>
    /\ returnItems = <<>>
    /\ result = Result("none", FALSE)
    /\ requests = 0
    /\ proc = [p \in Procs |-> IdleLoc]

\* Several returns against one sale, from a stock of one delivered batch.
RepeatedReturnLists == {<<RItem(1, 1, 10)>>, <<RItem(1, 1, 0)>>}
RepeatNext ==
    \/ CreateSale(ReturnSaleInputs)
    \/ CreateReturnOf(RepeatedReturnLists, MaxRepeatedReturns)
    \/ ApproveReturn
    \/ RejectReturn

SpecRepeat == ConcInit /\ [][RepeatNext]_vars

BeginCreateSale(p) ==
    \E input \in ConcSaleInputs :
        /\ proc[p].pc = "idle"
        /\ proc' = [proc EXCEPT ![p] = [IdleLoc EXCEPT !.pc = "start", !.op = "CreateSale",
                                                       !.input = input]]
        /\ UNCHANGED <<tables, result, requests>>

BeginAddCustomerCredit(p) ==
    \E c \in CustomerIds :
        /\ proc[p].pc = "idle"
        /\ proc' = [proc EXCEPT ![p] = [IdleLoc EXCEPT !.pc = "start",
                                                       !.op = "AddCustomerCredit",
                                                       !.target = c,
                                                       !.transaction_type = "credit_added",
                                                       !.amount = 10]]
        /\ UNCHANGED <<tables, result, requests>>

StepCreateSale(p) ==
    /\ proc[p].op = "CreateSale"
    /\ proc[p].pc \notin {"idle", "done"}
    /\ LET r == CS_Step(DB, proc[p])
       IN  Commit(r.db) /\ proc' = [proc EXCEPT ![p] = r.loc]
    /\ UNCHANGED <<result, requests>>

StepAddCustomerCredit(p) ==
    /\ proc[p].op = "AddCustomerCredit"
    /\ proc[p].pc \notin {"idle", "done"}
    /\ LET r == ACC_Step(DB, proc[p])
       IN  Commit(r.db) /\ proc' = [proc EXCEPT ![p] = r.loc]
    /\ UNCHANGED <<result, requests>>

ConcNext ==
    \E p \in Procs :
        \/ BeginCreateSale(p)
        \/ BeginAddCustomerCredit(p)
        \/ StepCreateSale(p)
        \/ StepAddCustomerCredit(p)

SpecConc == ConcInit /\ [][ConcNext]_vars

\* Two decisions on one pending return run at once.  The return is the one
\* left by a sale of two units and a return request for one of them.
PendingReturnDB(b) ==
    CreateReturn_mutate(
        CreateSale_mutate(
            [stock |-> <<create_new_delivery(60, 0)>>,
             customers |-> [c \in CustomerIds |-> [balance |-> b, total_purchases |-> 0]],
             credits |-> <<>>, sales |-> <<>>, saleItems |-> <<>>, payments |-> <<>>,
             returns |-> <<>>, returnItems |-> <<>>],
            SaleInput(1, <<Item(1, 2)>>, 0, Paid(0))).db,
        1, <<RItem(1, 1, 10)>>).db

ConcReturnInit ==
    /\ \E b \in InitBalances :
           /\ stock = PendingReturnDB(b).stock
           /\ customers = PendingReturnDB(b).customers
           /\ credits = PendingReturnDB(b).credits
           /\ sales = PendingReturnDB(b).sales
           /\ saleItems = PendingReturnDB(b).saleItems
           /\ payments = PendingReturnDB(b).payments
           /\ returns = PendingReturnDB(b).returns
           /\ returnItems = PendingReturnDB(b).returnItems
    /\ result = Result("none", FALSE)
    /\ requests = 0
    /\ proc = [p \in Procs |-> IdleLoc]

BeginApproveReturn(p) ==
    \E return_id \in 1..Len(returns) :
        /\ proc[p].pc = "idle"
        /\ proc' = [proc EXCEPT ![p] = [IdleLoc EXCEPT !.pc = "start",
                                                       !.op = "ApproveReturn",
                                                       !.target = return_id]]
        /\ UNCHANGED <<tables, result, requests>>

BeginRejectReturn(p) ==
    \E return_id \in 1..Len(returns) :
        /\ proc[p].pc = "idle"
        /\ proc' = [proc EXCEPT ![p] = [IdleLoc EXCEPT !.pc = "start",
                                                       !.op = "RejectReturn",
                                                       !.target = return_id]]
        /\ UNCHANGED <<tables, result, requests>>

StepApproveReturn(p) ==
    /\ proc[p].op = "ApproveReturn"
    /\ proc[p].pc \notin {"idle", "done"}
    /\ LET r == AR_Step(DB, proc[p])
       IN  Commit(r.db) /\ proc' = [proc EXCEPT ![p] = r.loc]
    /\ UNCHANGED <<result, requests>>

StepRejectReturn(p) ==
    /\ proc[p].op = "RejectReturn"
    /\ proc[p].pc \notin {"idle", "done"}
    /\ LET r == RR_Step(DB, proc[p])
       IN  Commit(r.db) /\ proc' = [proc EXCEPT ![p] = r.loc]
    /\ UNCHANGED <<result, requests>>

ConcReturnNext ==
    \E p \in Procs :
        \/ BeginApproveReturn(p)
        \/ BeginRejectReturn(p)
        \/ StepApproveReturn(p)
        \/ StepRejectReturn(p)

SpecConcReturn == ConcReturnInit /\ [][ConcReturnNext]_vars

\* ================================================================ claims

EntriesOf(c) == SelectSeq(credits, LAMBDA e : e.customer = c)
Sign(type) ==
    IF type \in {"credit_added", "credit_refund", "credit_earned"} THEN 1 ELSE -1
Litres(item) == ProductUnit[item.product] * LitresPerUnit * item.quantity
\* A request has just returned (the step taken is a handled request).
Returned(op, success) ==
    requests' # requests /\ result'.op = op /\ result'.success = success

\* C1: a CreateSale call that reports failure leaves every table as it was
\* before the call (no Sale, SaleItem, Payment or CustomerCredit row, no
\* Customer change, no stock change).
C1_AllOrNothing ==
    [][Returned("CreateSale", FALSE) => UNCHANGED tables]_vars

\* C2: with two settlements in flight, the litres of the items of the sales
\* that succeeded never exceed the litres that were in stock, and
\* remaining_stock is never negative.
SoldBy(p) ==
    IF proc[p].op = "CreateSale" /\ proc[p].pc = "done" /\ proc[p].success
    THEN SumSeq([k \in 1..Len(saleItems) |->
                    IF saleItems[k].sale = proc[p].sale_id THEN Litres(saleItems[k]) ELSE 0])
    ELSE 0
C2_StockSerialized ==
    /\ \A k \in 1..Len(stock) : stock[k].remaining_stock >= 0
    /\ SoldBy(1) + SoldBy(2) <= stock[1].cumulative_stock

\* C3: when two requests on the same customer have both returned, the
\* ledger entries and Customer.balance are those of one of the two
\* sequential orders of the requests.
C3_Orders == {<<1, 2>>, <<2, 1>>}
InitialDB(b) ==
    [stock |-> <<create_new_delivery(60, 0)>>,
     customers |-> [c \in CustomerIds |-> [balance |-> b, total_purchases |-> 0]],
     credits |-> <<>>, sales |-> <<>>, saleItems |-> <<>>, payments |-> <<>>,
     returns |-> <<>>, returnItems |-> <<>>]
SeqRun(d, l) ==
    IF l.op = "CreateSale"
    THEN CreateSale_mutate(d, l.input).db
    ELSE AddCustomerCredit_mutate(d, l.target, l.transaction_type, l.amount).db
Postings(d) ==
    [k \in 1..Len(d.credits) |->
        [customer |-> d.credits[k].customer,
         transaction_type |-> d.credits[k].transaction_type,
         amount |-> d.credits[k].amount,
         balance_after |-> d.credits[k].balance_after]]
C3_CreditSerialized ==
    (\A p \in Procs : proc[p].pc = "done") =>
        \E b \in InitBalances, order \in C3_Orders :
            LET d == SeqRun(SeqRun(InitialDB(b), proc[order[1]]), proc[order[2]])
            IN  /\ Postings(d) = Postings(DB)
                /\ \A c \in CustomerIds : d.customers[c].balance = customers[c].balance

\* C4: for every customer, each ledger entry after the first has
\* balance_after = the previous entry's balance_after + amount for
\* credit_added, credit_refund and credit_earned, - amount for credit_used
\* and debt_incurred.
C4_LedgerConsistent ==
    \A c \in CustomerIds :
        \A k \in 2..Len(EntriesOf(c)) :
            EntriesOf(c)[k].balance_after =
                EntriesOf(c)[k - 1].balance_after
                + Sign(EntriesOf(c)[k].transaction_type) * EntriesOf(c)[k].amount
C4_Witness ==
    \E c \in CustomerIds :
        /\ Len(EntriesOf(c)) >= 4
        /\ \E k \in 2..Len(EntriesOf(c)) : EntriesOf(c)[k].transaction_type = "credit_refund"
        /\ \E k \in 2..Len(EntriesOf(c)) : EntriesOf(c)[k].transaction_type = "debt_incurred"
        /\ \E k \in 2..Len(EntriesOf(c)) : EntriesOf(c)[k].transaction_type = "credit_added"

\* C5: for every customer with ledger entries, Customer.balance equals the
\* balance_after of the most recent entry.
C5_BalanceLockstep ==
    \A c \in CustomerIds :
        Len(EntriesOf(c)) > 0 =>
            customers[c].balance = EntriesOf(c)[Len(EntriesOf(c))].balance_after

\* C6: every stock batch has remaining_stock = cumulative_stock - sold_stock.
C6_RemainingIsCumulativeMinusSold ==
    \A k \in 1..Len(stock) :
        stock[k].remaining_stock = stock[k].cumulative_stock - stock[k].sold_stock
C6_Witness ==
    /\ \E r \in 1..Len(returns) : returns[r].status = "completed"
    /\ Len(stock) = 2
    /\ stock[1].sold_stock > 0
    /\ stock[1].remaining_stock > 0

\* C7: every stock batch has 0 <= sold_stock <= cumulative_stock and
\* remaining_stock >= 0.
C7_SoldWithinCumulative ==
    \A k \in 1..Len(stock) :
        /\ 0 <= stock[k].sold_stock
        /\ stock[k].sold_stock <= stock[k].cumulative_stock
        /\ stock[k].remaining_stock >= 0

\* C8: amount_due = max(0, total - credit_applied - the sum of the payments
\* recorded for the sale) holds for a sale that has just been settled, and
\* an added payment keeps it for every sale that had it.
C8_Holds(sls, pays, s) ==
    sls[s].amount_due =
        Max(0, sls[s].total - sls[s].credit_applied
               - SumSeq([k \in 1..Len(pays) |->
                            IF pays[k].sale = s THEN pays[k].amount ELSE 0]))
C8_AmountDue ==
    [][/\ Returned("CreateSale", TRUE) => C8_Holds(sales', payments', Len(sales'))
       /\ Returned("AddPayment", TRUE) =>
              \A s \in 1..Len(sales) :
                  C8_Holds(sales, payments, s) => C8_Holds(sales', payments', s)]_vars

\* C9: a sale that has just been settled has 0 <= credit_applied <= total.
C9_CreditAppliedBounds ==
    [][Returned("CreateSale", TRUE) =>
          /\ 0 <= sales'[Len(sales')].credit_applied
          /\ sales'[Len(sales')].credit_applied <= sales'[Len(sales')].total]_vars

\* C10: a settlement for a customer, with finalBalance = total -
\* creditApplied - totalPayments, posts exactly one debt_incurred entry of
\* finalBalance lowering the balance by it when finalBalance > 0, exactly one
\* credit_earned entry of |finalBalance| raising the balance by it when
\* finalBalance < 0, none of the two when finalBalance = 0, and never both.
C10_Outcome(sale, paid, before, posted, balance) ==
    LET final_balance == sale.total - sale.credit_applied - paid
        outcome == SelectSeq(posted, LAMBDA e :
                       e.transaction_type \in {"debt_incurred", "credit_earned"})
        start == IF Len(posted) = 2 THEN posted[1].balance_after ELSE before
    IN  /\ Len(outcome) = IF final_balance = 0 THEN 0 ELSE 1
        /\ final_balance # 0 =>
               /\ posted[Len(posted)] = outcome[1]
               /\ outcome[1].amount = Abs(final_balance)
               /\ outcome[1].transaction_type =
                      IF final_balance > 0 THEN "debt_incurred" ELSE "credit_earned"
               /\ outcome[1].balance_after = start - final_balance
               /\ balance = outcome[1].balance_after
C10_DebtOrCredit ==
    [][(Returned("CreateSale", TRUE) /\ sales'[Len(sales')].customer # None) =>
          C10_Outcome(sales'[Len(sales')], payments'[Len(payments')].amount,
                      get_current_credit_balance(DB, sales'[Len(sales')].customer),
                      SubSeq(credits', Len(credits) + 1, Len(credits')),
                      customers'[sales'[Len(sales')].customer].balance)]_vars
C10_Witness ==
    /\ result = Result("CreateSale", TRUE)
    /\ Len(credits) >= 2
    /\ credits[Len(credits)].transaction_type = "credit_earned"
    /\ credits[Len(credits) - 1].transaction_type = "credit_used"
    /\ credits[Len(credits)].sale = Len(sales)
    /\ credits[Len(credits) - 1].sale = Len(sales)

\* C11: after a settlement for a customer the sale does not have
\* amount_due > 0 while the customer's current credit balance is positive,
\* and the credit_used entry of the sale precedes its debt_incurred or
\* credit_earned entry.
BalanceOf(crs, custs, c) ==
    LET mine == SelectSeq(crs, LAMBDA e : e.customer = c)
    IN  IF Len(mine) > 0 THEN mine[Len(mine)].balance_after ELSE custs[c].balance
C11_CreditFirst ==
    [][(Returned("CreateSale", TRUE) /\ sales'[Len(sales')].customer # None) =>
          LET posted == SubSeq(credits', Len(credits) + 1, Len(credits'))
          IN  /\ ~(/\ sales'[Len(sales')].amount_due > 0
                   /\ BalanceOf(credits', customers', sales'[Len(sales')].customer) > 0)
              /\ \A i, j \in 1..Len(posted) :
                     (posted[j].transaction_type = "credit_used" /\ i # j) => j < i]_vars

C13_RejectFrame ==
    [][Returned("RejectReturn", TRUE) =>
          /\ \E r \in 1..Len(returns) :
                 /\ returns[r].status = "pending"
                 /\ returns' = [returns EXCEPT ![r].status = "rejected",
                                               ![r].approved_by = 1]
          /\ UNCHANGED <<stock, credits, customers, sales, saleItems, payments,
                         returnItems>>]_vars
C13_Witness ==
    /\ result = Result("RejectReturn", TRUE)
    /\ \E r \in 1..Len(returns) :
           returns[r].status = "rejected" /\ returns[r].total_refund_amount > 0
    /\ Len(stock) > 0 /\ stock[Len(stock)].sold_stock > 0

\* C14: a successful approve raises the remaining stock of the latest batch
\* by exactly the litres of the returned items (unit x 25 x quantity).
ReturnedLitres(r) ==
    SumSeq([k \in 1..Len(returnItems) |->
               IF returnItems[k].return_request = r
               THEN ProductUnit[returnItems[k].product] * LitresPerUnit
                        * returnItems[k].quantity
               ELSE 0])
C14_ReversalIsInverse ==
    [][Returned("ApproveReturn", TRUE) =>
          \A r \in 1..Len(returns) :
              returns'[r].status # returns[r].status =>
                  get_latest_remaining_stock([stock |-> stock']) =
                      get_latest_remaining_stock(DB) + ReturnedLitres(r)]_vars

\* C15: a successful delivery of quantity q appends a batch with
\* cumulative_stock = remaining_stock = r + q and sold_stock = 0, r being the
\* remaining stock of the latest batch before it (0 without a batch).
C15_DeliveryRolls ==
    [][Returned("CreateStockDelivery", TRUE) =>
          /\ Len(stock') = Len(stock) + 1
          /\ \E q \in DeliveryQtys :
                 stock'[Len(stock')] =
                     [cumulative_stock |-> get_latest_remaining_stock(DB) + q,
                      remaining_stock |-> get_latest_remaining_stock(DB) + q,
                      sold_stock |-> 0]]_vars

\* C16: on every batch, record_sale with a negative quantity fails and
\* leaves sold_stock and remaining_stock as they were.
C16_Quantities == {-1, -25, -100}
C16_NegativeSaleRejected ==
    \A k \in 1..Len(stock), q \in C16_Quantities :
        /\ ~record_sale(stock[k], q).ok
        /\ record_sale(stock[k], q).rec = stock[k]

\* C17: on every batch with remaining stock r, record_sale(r) succeeds and
\* leaves remaining_stock = 0 and sold_stock = cumulative_stock; record_sale
\* of any quantity above r fails and leaves the batch as it was.
C17_ExactAndInsufficient ==
    \A k \in 1..Len(stock) :
        LET r == stock[k].remaining_stock
        IN  /\ record_sale(stock[k], r).ok
            /\ record_sale(stock[k], r).rec.remaining_stock = 0
            /\ record_sale(stock[k], r).rec.sold_stock = stock[k].cumulative_stock
            /\ \A q \in {r + 1, r + 25, r + 200} :
                   /\ ~record_sale(stock[k], q).ok
                   /\ record_sale(stock[k], q).rec = stock[k]
C17_Witness ==
    /\ result = Result("RecordSale", TRUE)
    /\ \E k \in 1..Len(stock) :
           /\ stock[k].remaining_stock = 0
           /\ stock[k].sold_stock = stock[k].cumulative_stock
           /\ stock[k].sold_stock > 0

\* C18: every credit ledger entry has amount > 0.
C18_PositiveAmounts ==
    \A k \in 1..Len(credits) : credits[k].amount > 0

\* C19: no SaleItem exists for a line item whose quantity is zero or
\* negative.
C19_NoEmptyLineItem ==
    \A k \in 1..Len(saleItems) : saleItems[k].quantity > 0

\* C20: no step lowers a customer's total_purchases.
C20_PurchasesMonotone ==
    [][\A c \in CustomerIds :
          customers'[c].total_purchases >= customers[c].total_purchases]_vars

\* C21: no step deletes a customer whose balance is not zero (positive or
\* negative): such a customer is still there after every request.
C21_NoDeleteWithBalance ==
    [][\A c \in DOMAIN customers :
          customers[c].balance # 0 => c \in DOMAIN customers']_vars

\* C22: a successful addPayment appends one Payment to one sale, lowers that
\* sale's balance and amount_due by the payment amount, posts no ledger entry
\* and changes no customer; afterwards the sale's balance equals its
\* amount_due and both are >= 0.
C22_AddPaymentFrame ==
    [][Returned("AddPayment", TRUE) =>
          /\ Len(payments') = Len(payments) + 1
          /\ SubSeq(payments', 1, Len(payments)) = payments
          /\ UNCHANGED <<credits, customers, stock, saleItems, returns, returnItems>>
          /\ LET payment == payments'[Len(payments')]
                 s == payment.sale
             IN  /\ s \in 1..Len(sales)
                 /\ \A o \in 1..Len(sales) : o # s => sales'[o] = sales[o]
                 /\ sales'[s].balance = sales[s].balance - payment.amount
                 /\ sales'[s].amount_due = sales[s].amount_due - payment.amount
                 /\ sales'[s].balance = sales'[s].amount_due
                 /\ sales'[s].balance >= 0]_vars

\* C23: on every reachable database, a CreateReturn whose items all belong to
\* the sale and one of which asks for more than the SaleItem's quantity fails
\* and leaves the Return and ReturnItem tables as they were (also when an
\* earlier item of the request was valid).
C23_Lists == {<<RItem(1, 2, 10)>>, <<RItem(1, 1, 10), RItem(1, 2, 10)>>}
C23_NoReturnLeftBehind ==
    \A s \in 1..Len(sales), items \in C23_Lists :
        (/\ sales[s].customer # None
         /\ \A k \in 1..Len(items) :
                /\ items[k].sale_item_id \in 1..Len(saleItems)
                /\ saleItems[items[k].sale_item_id].sale = s
         /\ \E k \in 1..Len(items) :
                items[k].quantity > saleItems[items[k].sale_item_id].quantity)
        => /\ ~CreateReturn_mutate(DB, s, items).success
           /\ CreateReturn_mutate(DB, s, items).db.returns = returns
           /\ CreateReturn_mutate(DB, s, items).db.returnItems = returnItems

\* C24: a successful approve lowers the sold_stock of the latest batch by the
\* litres of the return's items and, when total_refund_amount > 0, posts
\* exactly one credit_refund entry of that amount, linked to the original
\* sale, with balance_after = the customer's current balance + the amount;
\* when total_refund_amount is 0 it posts nothing.
C24_ApproveEffect ==
    [][Returned("ApproveReturn", TRUE) =>
          \A r \in 1..Len(returns) :
              returns'[r].status # returns[r].status =>
                  /\ Len(stock) > 0 =>
                         stock'[Len(stock)].sold_stock =
                             stock[Len(stock)].sold_stock - ReturnedLitres(r)
                  /\ credits' =
                         IF returns[r].total_refund_amount > 0
                         THEN Append(credits,
                                     CreditRow(returns[r].customer, "credit_refund",
                                               returns[r].total_refund_amount,
                                               get_current_credit_balance(
                                                   DB, returns[r].customer)
                                               + returns[r].total_refund_amount,
                                               returns[r].original_sale))
                         ELSE credits]_vars

\* C25: a sale that has just been settled has total = subtotal - discount,
\* and so has every sale after a step that changed its subtotal or its
\* discount (UpdateSale, calculate_totals).
C25_TotalIsSubtotalMinusDiscount ==
    [][/\ Returned("CreateSale", TRUE) =>
              sales'[Len(sales')].total =
                  sales'[Len(sales')].subtotal - sales'[Len(sales')].discount
       /\ \A s \in 1..Len(sales) :
              (sales'[s].subtotal # sales[s].subtotal
               \/ sales'[s].discount # sales[s].discount) =>
                  sales'[s].total = sales'[s].subtotal - sales'[s].discount]_vars

\* C29: every sale's credit_applied equals the total amount of the
\* credit_used ledger entries linked to that sale (0 when there are none).
CreditUsedFor(s) ==
    SumSeq([k \in 1..Len(credits) |->
               IF credits[k].sale = s /\ credits[k].transaction_type = "credit_used"
               THEN credits[k].amount ELSE 0])
C29_CreditAppliedIsPosted ==
    \A s \in 1..Len(sales) : sales[s].credit_applied = CreditUsedFor(s)

\* C26: for every customer, available_credit() is max(0, credit_limit -
\* balance); balance 100 with credit_limit 1000 gives 900, and a balance equal
\* to the credit limit gives 0.
C26_AvailableCredit ==
    /\ \A c \in CustomerIds :
           available_credit(customers[c].credit_limit, customers[c].balance) =
               Max(0, customers[c].credit_limit - customers[c].balance)
    /\ available_credit(1000, 100) = 900
    /\ available_credit(1000, 1000) = 0

\* C27: a successful settlement for a customer leaves the customer's credit
\* balance at the balance before it - the sale total + the payment received,
\* and the net of the credit_used, debt_incurred and credit_earned entries
\* posted for the sale is the payment - the total.
C27_MoneyConserved ==
    [][(Returned("CreateSale", TRUE) /\ sales'[Len(sales')].customer # None) =>
          LET c == sales'[Len(sales')].customer
              total == sales'[Len(sales')].total
              paid == payments'[Len(payments')].amount
              posted == SubSeq(credits', Len(credits) + 1, Len(credits'))
          IN  /\ BalanceOf(credits', customers', c) =
                     get_current_credit_balance(DB, c) - total + paid
              /\ customers'[c].balance = customers[c].balance - total + paid
              /\ \A k \in 1..Len(posted) :
                     /\ posted[k].sale = Len(sales')
                     /\ posted[k].customer = c
                     /\ posted[k].transaction_type \in
                            {"credit_used", "debt_incurred", "credit_earned"}
              /\ SumSeq([k \in 1..Len(posted) |->
                            Sign(posted[k].transaction_type) * posted[k].amount]) =
                     paid - total]_vars
C27_Witness ==
    /\ result = Result("CreateSale", TRUE)
    /\ Len(credits) >= 3
    /\ credits[Len(credits)].transaction_type = "debt_incurred"
    /\ credits[Len(credits) - 1].transaction_type = "credit_used"
    /\ credits[Len(credits)].sale = Len(sales)
    /\ credits[Len(credits) - 1].sale = Len(sales)
    /\ credits[Len(credits)].balance_after < 0

\* C28: for every SaleItem, the quantities of its ReturnItems in completed
\* returns add up to at most the SaleItem's quantity.
ReturnedQuantity(k) ==
    SumSeq([i \in 1..Len(returnItems) |->
               IF /\ returnItems[i].original_sale_item = k
                  /\ returns[returnItems[i].return_request].status = "completed"
               THEN returnItems[i].quantity ELSE 0])
C28_ReturnedWithinSold ==
    \A k \in 1..Len(saleItems) : ReturnedQuantity(k) <= saleItems[k].quantity

\* C30: with two decisions on one pending return in flight, the litres of
\* the return go back to stock at most once, at most one credit_refund entry
\* is posted for it, and once both have returned a rejected return has left
\* stock and ledger untouched.
RefundEntries == SelectSeq(credits, LAMBDA e : e.transaction_type = "credit_refund")
SoldLitres == SumSeq([k \in 1..Len(saleItems) |-> Litres(saleItems[k])])
C30_ReturnActsOnce ==
    /\ stock[Len(stock)].sold_stock >= SoldLitres - ReturnedLitres(1)
    /\ Len(RefundEntries) <= 1
    /\ (/\ \A p \in Procs : proc[p].pc = "done"
        /\ returns[1].status = "rejected")
       => /\ stock[Len(stock)].sold_stock = SoldLitres
          /\ Len(RefundEntries) = 0

====
